---- MODULE Spec2Model ----
(***************************************************************************)
(* Model of src/physics/solver/gs.go: the Gauss-Seidel constraint solver   *)
(* (GaussSeidel.Reset, GaussSeidel.Solve) and the OpenGL vertex buffer     *)
(* object (VBO) that the same file carries.                                *)
(*                                                                         *)
(* float32 is modelled as a binary floating-point format of the same       *)
(* shape with a short significand: MantBits significant bits, gradual      *)
(* underflow on a grid of 1/Scale, round-to-nearest-even, overflow to      *)
(* +Inf/-Inf, and NaN.  A finite value v is held as the integer v*Scale.   *)
(***************************************************************************)
EXTENDS Integers, Sequences, FiniteSets, TLC

\* ------------------------------------------------------------------------
\* Bounds of the model
\* ------------------------------------------------------------------------
\* significant bits of the model's float format (float32 has 24)
MantBits == 3
\* fractional bits of the grid: the smallest positive value is 1/2^ScaleBits
ScaleBits == 2
\* exponent of the largest binade: the largest finite value is
\* (2^MantBits - 1) * 2^MaxExp grid units
MaxExp == 6
\* number of Solve calls made on one solver in a behaviour
MaxCalls == 2
\* largest value the maxIter field is given
MaxIterBound == 2
\* number of VBO operations in a behaviour
MaxOps == 5

\* ------------------------------------------------------------------------
\* float32 arithmetic
\* ------------------------------------------------------------------------
Pow2(k) == 2 ^ k

Scale == Pow2(ScaleBits)
\* the least magnitude that needs more than MantBits bits on the grid
TwoP == Pow2(MantBits)
\* the first magnitude past the largest finite value; stands for infinity
Huge == Pow2(MantBits) * Pow2(MaxExp)
PosInf == Huge
NegInf == -Huge
NaN == Huge + 1

IsNaN(x) == x = NaN
IsInf(x) == x = PosInf \/ x = NegInf
IsFinite(x) == -Huge < x /\ x < Huge

\* the integer v as a float (v * Scale grid units)
R(v) == v * Scale
\* the fraction n/d as a float; used only where n*Scale is a multiple of d
Q(n, d) == (n * Scale) \div d

AbsInt(n) == IF n < 0 THEN -n ELSE n
Sign(n) == IF n < 0 THEN -1 ELSE 1

\* exponent of the binade of a/d (a >= 0, d > 0): the least e >= 0 with
\* a/d < 2^(MantBits+e)
RECURSIVE Binade(_, _, _)
Binade(a, d, e) ==
    IF a < Pow2(MantBits + e) * d \/ e > MaxExp THEN e ELSE Binade(a, d, e + 1)

\* a/d rounded to the nearest integer, ties to even (a >= 0, d > 0)
RoundHalfEven(a, d) ==
    LET q == a \div d
        r == a % d
    IN  IF 2 * r < d THEN q
        ELSE IF 2 * r > d THEN q + 1
        ELSE IF q % 2 = 0 THEN q ELSE q + 1

\* the float nearest to the rational n/d grid units (d > 0)
Rnd(n, d) ==
    IF d = 1 /\ -TwoP < n /\ n < TwoP THEN n
    ELSE LET a == AbsInt(n)
             e == Binade(a, d, 0)
             m == RoundHalfEven(a, d * Pow2(e)) * Pow2(e)
         IN  IF m >= Huge THEN Sign(n) * PosInf ELSE Sign(n) * m

FNeg(x) == IF IsNaN(x) THEN NaN ELSE -x

FAdd(x, y) ==
    IF IsFinite(x) /\ IsFinite(y) THEN Rnd(x + y, 1)
    ELSE IF IsNaN(x) \/ IsNaN(y) THEN NaN
    ELSE IF IsInf(x) /\ IsInf(y) THEN (IF x = y THEN x ELSE NaN)
    ELSE IF IsInf(x) THEN x
    ELSE y

FSub(x, y) == FAdd(x, FNeg(y))

FMul(x, y) ==
    IF IsFinite(x) /\ IsFinite(y)
    THEN (IF x = 0 \/ y = 0 THEN 0 ELSE Rnd(x * y, Scale))
    ELSE IF IsNaN(x) \/ IsNaN(y) THEN NaN
    ELSE IF x = 0 \/ y = 0 THEN NaN
    ELSE Sign(x) * Sign(y) * PosInf

FDiv(x, y) ==
    IF IsNaN(x) \/ IsNaN(y) THEN NaN
    ELSE IF IsInf(x) /\ IsInf(y) THEN NaN
    ELSE IF IsInf(x) THEN Sign(x) * Sign(y) * PosInf
    ELSE IF IsInf(y) THEN 0
    ELSE IF y = 0 THEN (IF x = 0 THEN NaN ELSE Sign(x) * PosInf)
    ELSE Rnd(Sign(y) * x * Scale, AbsInt(y))

FAbs(x) == IF IsNaN(x) THEN NaN ELSE AbsInt(x)

\* x < y and x > y of Go: false when either operand is NaN
FLt(x, y) == ~IsNaN(x) /\ ~IsNaN(y) /\ x < y
FGt(x, y) == FLt(y, x)

\* the operation's result is the exact sum, product or quotient: nothing was
\* rounded (the IEEE inexact flag stays clear)
ExAdd(x, y) == IsFinite(x) /\ IsFinite(y) /\ FAdd(x, y) = x + y
ExSub(x, y) == IsFinite(x) /\ IsFinite(y) /\ FSub(x, y) = x - y
ExMul(x, y) ==
    IsFinite(x) /\ IsFinite(y) /\ (x * y) % Scale = 0 /\ FMul(x, y) * Scale = x * y
ExDiv(x, y) ==
    IsFinite(x) /\ IsFinite(y) /\ y # 0 /\ (x * Scale) % AbsInt(y) = 0
    /\ FDiv(x, y) * y = x * Scale

\* ------------------------------------------------------------------------
\* math32.Vector3, math32.Matrix3 and the Jacobian element
\* ------------------------------------------------------------------------
Zero3 == <<0, 0, 0>>
\* a Matrix3 is held as its three rows
ZeroM == <<Zero3, Zero3, Zero3>>
IdM == <<<<R(1), 0, 0>>, <<0, R(1), 0>>, <<0, 0, R(1)>>>>

\* Vector3.Add
VAdd(v, w) == <<FAdd(v[1], w[1]), FAdd(v[2], w[2]), FAdd(v[3], w[3])>>
\* Vector3.MultiplyScalar
MultiplyScalar(v, s) == <<FMul(v[1], s), FMul(v[2], s), FMul(v[3], s)>>
\* Vector3.Dot
Dot(v, w) == FAdd(FAdd(FMul(v[1], w[1]), FMul(v[2], w[2])), FMul(v[3], w[3]))
\* Vector3.ApplyMatrix3
ApplyMatrix3(v, m) == <<Dot(m[1], v), Dot(m[2], v), Dot(m[3], v)>>
\* JacobianElement.MultiplyVectors
MultiplyVectors(je, spatial, rotational) ==
    FAdd(Dot(je.spatial, spatial), Dot(je.rotational, rotational))

\* the same operations, all exact
ExVAdd(v, w) == \A i \in 1..3 : ExAdd(v[i], w[i])
ExMultiplyScalar(v, s) == \A i \in 1..3 : ExMul(v[i], s)
ExDot(v, w) ==
    /\ \A i \in 1..3 : ExMul(v[i], w[i])
    /\ ExAdd(FMul(v[1], w[1]), FMul(v[2], w[2]))
    /\ ExAdd(FAdd(FMul(v[1], w[1]), FMul(v[2], w[2])), FMul(v[3], w[3]))
ExApplyMatrix3(v, m) == \A i \in 1..3 : ExDot(m[i], v)
ExMultiplyVectors(je, spatial, rotational) ==
    /\ ExDot(je.spatial, spatial)
    /\ ExDot(je.rotational, rotational)
    /\ ExAdd(Dot(je.spatial, spatial), Dot(je.rotational, rotational))

\* ------------------------------------------------------------------------
\* Go slices: a backing array and a length; the capacity is Len(buf)
\* ------------------------------------------------------------------------
EmptySlice == [buf |-> <<>>, len |-> 0]
\* s[0:0]
Truncate(s) == [buf |-> s.buf, len |-> 0]
\* append(s, v): writes into the backing array while there is capacity
append(s, v) ==
    IF s.len < Len(s.buf)
    THEN [buf |-> [s.buf EXCEPT ![s.len + 1] = v], len |-> s.len + 1]
    ELSE [buf |-> Append(s.buf, v), len |-> s.len + 1]
\* the elements of the slice, s[0:len]
View(s) == SubSeq(s.buf, 1, s.len)
\* s[i] and s[i] = v for 0 <= i < len
At(s, i) == s.buf[i + 1]
Put(s, i, v) == [s EXCEPT !.buf[i + 1] = v]

RECURSIVE AppendN(_, _, _)
AppendN(s, v, n) == IF n <= 0 THEN s ELSE AppendN(append(s, v), v, n - 1)

\* ------------------------------------------------------------------------
\* GaussSeidel
\* ------------------------------------------------------------------------
DefaultMaxIter == 10
\* gs.tolerance = 1e-7: a small positive float whose square is still positive
\* (in float32 1e-7 * 1e-7 does not underflow)
DefaultTolerance == Q(1, 2)

NewGaussSeidel ==
    [maxIter |-> DefaultMaxIter,
     tolerance |-> DefaultTolerance,
     VelocityDeltas |-> EmptySlice,
     AngularVelocityDeltas |-> EmptySlice,
     solveInvCs |-> EmptySlice,
     solveBs |-> EmptySlice,
     solveLambda |-> EmptySlice]

\* a seeded fault: Reset that forgets to truncate solveLambda
ResetKeepsLambda(g) ==
    [g EXCEPT !.VelocityDeltas = Truncate(@),
              !.AngularVelocityDeltas = Truncate(@),
              !.solveInvCs = Truncate(@),
              !.solveBs = Truncate(@)]

Reset(g) ==
    [g EXCEPT !.VelocityDeltas = Truncate(@),
              !.AngularVelocityDeltas = Truncate(@),
              !.solveInvCs = Truncate(@),
              !.solveBs = Truncate(@),
              !.solveLambda = Truncate(@)]

\* a seeded fault: the deltas resliced to nB elements, zeroed only where the
\* backing array had to grow
ResetDeltasReslice(g, nB) ==
    [g EXCEPT !.VelocityDeltas =
                  [buf |-> AppendN([buf |-> @.buf, len |-> Len(@.buf)], Zero3,
                                   nB - Len(@.buf)).buf,
                   len |-> nB],
              !.AngularVelocityDeltas =
                  [buf |-> AppendN([buf |-> @.buf, len |-> Len(@.buf)], Zero3,
                                   nB - Len(@.buf)).buf,
                   len |-> nB]]

\* Solve, "Reset deltas": one zero vector per body
ResetDeltas(g, nB) ==
    [g EXCEPT !.VelocityDeltas = AppendN(@, Zero3, nB),
              !.AngularVelocityDeltas = AppendN(@, Zero3, nB)]

\* Solve, "Things that do not change during iteration can be computed once"
RECURSIVE Precompute(_, _, _)
Precompute(g, eqs, i) ==
    IF i >= Len(eqs) THEN g
    ELSE Precompute(
           [g EXCEPT !.solveInvCs = append(@, FDiv(R(1), eqs[i + 1].C)),
                     !.solveBs = append(@, eqs[i + 1].B),
                     !.solveLambda = append(@, 0)],
           eqs, i + 1)

\* Solve up to the iteration loop
SolveProlog(g, eqs, nB) == Precompute(ResetDeltas(Reset(g), nB), eqs, 0)

TolSquared(g) == FMul(g.tolerance, g.tolerance)

\* a seeded fault: body A's deltas read for body B as well
ReadDeltasOfBodyA(g, eq) ==
    [vA |-> At(g.VelocityDeltas, eq.bodyA),
     vB |-> At(g.VelocityDeltas, eq.bodyA),
     wA |-> At(g.AngularVelocityDeltas, eq.bodyA),
     wB |-> At(g.AngularVelocityDeltas, eq.bodyA)]

\* the velocity and angular-velocity deltas equation eq reads for its bodies
ReadDeltas(g, eq) ==
    [vA |-> At(g.VelocityDeltas, eq.bodyA),
     vB |-> At(g.VelocityDeltas, eq.bodyB),
     wA |-> At(g.AngularVelocityDeltas, eq.bodyA),
     wB |-> At(g.AngularVelocityDeltas, eq.bodyB)]

GWlambdaOf(eq, d) ==
    FAdd(MultiplyVectors(eq.jeA, d.vA, d.wA), MultiplyVectors(eq.jeB, d.vB, d.wB))

\* a seeded fault: the update computed without the GWlambda term
RawDeltaLambdaNoFeedback(g, eq, jj, GWlambda) ==
    FMul(At(g.solveInvCs, jj),
         FSub(At(g.solveBs, jj), FMul(eq.eps, At(g.solveLambda, jj))))

\* deltaLambda before clamping
RawDeltaLambda(g, eq, jj, GWlambda) ==
    FMul(At(g.solveInvCs, jj),
         FSub(FSub(At(g.solveBs, jj), GWlambda),
              FMul(eq.eps, At(g.solveLambda, jj))))

\* "Clamp if we are outside the min/max interval"
Clamp(lambdaJ, deltaLambda, eq) ==
    IF FLt(FAdd(lambdaJ, deltaLambda), eq.minForce)
    THEN FSub(eq.minForce, lambdaJ)
    ELSE IF FGt(FAdd(lambdaJ, deltaLambda), eq.maxForce)
    THEN FSub(eq.maxForce, lambdaJ)
    ELSE deltaLambda

\* a seeded fault: each body's delta scaled by the other body's inverse mass
AddVelocitySwappedMass(sl, eq, bs, deltaLambda) ==
    LET a == Put(sl, eq.bodyA,
                 VAdd(At(sl, eq.bodyA),
                      MultiplyScalar(eq.jeA.spatial,
                          FMul(bs[eq.bodyB + 1].invMassSolve, deltaLambda))))
    IN  Put(a, eq.bodyB,
            VAdd(At(a, eq.bodyB),
                 MultiplyScalar(eq.jeB.spatial,
                     FMul(bs[eq.bodyA + 1].invMassSolve, deltaLambda))))

\* "Add to velocity deltas": body A first, then body B
AddVelocity(sl, eq, bs, deltaLambda) ==
    LET a == Put(sl, eq.bodyA,
                 VAdd(At(sl, eq.bodyA),
                      MultiplyScalar(eq.jeA.spatial,
                          FMul(bs[eq.bodyA + 1].invMassSolve, deltaLambda))))
    IN  Put(a, eq.bodyB,
            VAdd(At(a, eq.bodyB),
                 MultiplyScalar(eq.jeB.spatial,
                     FMul(bs[eq.bodyB + 1].invMassSolve, deltaLambda))))

\* "Add to angular velocity deltas": body A first, then body B
AddAngular(sl, eq, bs, deltaLambda) ==
    LET a == Put(sl, eq.bodyA,
                 VAdd(At(sl, eq.bodyA),
                      MultiplyScalar(
                          ApplyMatrix3(eq.jeA.rotational,
                                       bs[eq.bodyA + 1].invInertiaWorldSolve),
                          deltaLambda)))
    IN  Put(a, eq.bodyB,
            VAdd(At(a, eq.bodyB),
                 MultiplyScalar(
                     ApplyMatrix3(eq.jeB.rotational,
                                  bs[eq.bodyB + 1].invInertiaWorldSolve),
                     deltaLambda)))

\* the body of the loop over the equations, for equation jj
EquationUpdate(g, eqs, bs, jj) ==
    LET eq == eqs[jj + 1]
        lambdaJ == At(g.solveLambda, jj)
        GWlambda == GWlambdaOf(eq, ReadDeltas(g, eq))
        deltaLambda == Clamp(lambdaJ, RawDeltaLambda(g, eq, jj, GWlambda), eq)
    IN  [g |-> [g EXCEPT
                  !.solveLambda = Put(@, jj, FAdd(lambdaJ, deltaLambda)),
                  !.VelocityDeltas = AddVelocity(@, eq, bs, deltaLambda),
                  !.AngularVelocityDeltas = AddAngular(@, eq, bs, deltaLambda)],
         GWlambda |-> GWlambda,
         deltaLambda |-> deltaLambda]

\* no operation of the loop body for equation jj, and of the running total,
\* rounds
ExactUpdate(g, eqs, bs, jj, tot) ==
    LET eq == eqs[jj + 1]
        bA == bs[eq.bodyA + 1]
        bB == bs[eq.bodyB + 1]
        lambdaJ == At(g.solveLambda, jj)
        d == ReadDeltas(g, eq)
        GWlambda == GWlambdaOf(eq, d)
        raw == RawDeltaLambda(g, eq, jj, GWlambda)
        deltaLambda == Clamp(lambdaJ, raw, eq)
        vel == Put(g.VelocityDeltas, eq.bodyA,
                   VAdd(At(g.VelocityDeltas, eq.bodyA),
                        MultiplyScalar(eq.jeA.spatial,
                                       FMul(bA.invMassSolve, deltaLambda))))
        ang == Put(g.AngularVelocityDeltas, eq.bodyA,
                   VAdd(At(g.AngularVelocityDeltas, eq.bodyA),
                        MultiplyScalar(
                            ApplyMatrix3(eq.jeA.rotational, bA.invInertiaWorldSolve),
                            deltaLambda)))
    IN  /\ ExMultiplyVectors(eq.jeA, d.vA, d.wA)
        /\ ExMultiplyVectors(eq.jeB, d.vB, d.wB)
        /\ ExAdd(MultiplyVectors(eq.jeA, d.vA, d.wA),
                 MultiplyVectors(eq.jeB, d.vB, d.wB))
        /\ ExSub(At(g.solveBs, jj), GWlambda)
        /\ ExMul(eq.eps, lambdaJ)
        /\ ExSub(FSub(At(g.solveBs, jj), GWlambda), FMul(eq.eps, lambdaJ))
        /\ ExMul(At(g.solveInvCs, jj),
                 FSub(FSub(At(g.solveBs, jj), GWlambda), FMul(eq.eps, lambdaJ)))
        /\ ExAdd(lambdaJ, raw)
        /\ ExAdd(lambdaJ, deltaLambda)
        /\ ExAdd(tot, FAbs(deltaLambda))
        /\ ExMul(bA.invMassSolve, deltaLambda)
        /\ ExMultiplyScalar(eq.jeA.spatial, FMul(bA.invMassSolve, deltaLambda))
        /\ ExVAdd(At(g.VelocityDeltas, eq.bodyA),
                  MultiplyScalar(eq.jeA.spatial, FMul(bA.invMassSolve, deltaLambda)))
        /\ ExMul(bB.invMassSolve, deltaLambda)
        /\ ExMultiplyScalar(eq.jeB.spatial, FMul(bB.invMassSolve, deltaLambda))
        /\ ExVAdd(At(vel, eq.bodyB),
                  MultiplyScalar(eq.jeB.spatial, FMul(bB.invMassSolve, deltaLambda)))
        /\ ExApplyMatrix3(eq.jeA.rotational, bA.invInertiaWorldSolve)
        /\ ExMultiplyScalar(ApplyMatrix3(eq.jeA.rotational, bA.invInertiaWorldSolve),
                            deltaLambda)
        /\ ExVAdd(At(g.AngularVelocityDeltas, eq.bodyA),
                  MultiplyScalar(
                      ApplyMatrix3(eq.jeA.rotational, bA.invInertiaWorldSolve),
                      deltaLambda))
        /\ ExApplyMatrix3(eq.jeB.rotational, bB.invInertiaWorldSolve)
        /\ ExMultiplyScalar(ApplyMatrix3(eq.jeB.rotational, bB.invInertiaWorldSolve),
                            deltaLambda)
        /\ ExVAdd(At(ang, eq.bodyB),
                  MultiplyScalar(
                      ApplyMatrix3(eq.jeB.rotational, bB.invInertiaWorldSolve),
                      deltaLambda))

\* no quotient 1.0 / eq.ComputeC() rounds
ExactProlog(eqs) == \A i \in 1..Len(eqs) : ExDiv(R(1), eqs[i].C)

\* "If the total error is small enough - stop iterating"
Converged(g, tot) == FLt(FMul(tot, tot), TolSquared(g))

\* a seeded fault: the impulse written back without the division by h
MultiplierNotDivided(g, i, hh) == At(g.solveLambda, i)

\* SetMultiplier(gs.solveLambda[i] / h)
MultiplierOf(g, i, hh) == FDiv(At(g.solveLambda, i), hh)

\* the value Solve returns, from the loop counter as the loop left it
Returned(nEquations, it) == IF nEquations > 0 THEN it + 1 ELSE it

\* ------------------------------------------------------------------------
\* The bodies and equations the caller hands to the solver
\* ------------------------------------------------------------------------
Body(invMass, invInertia) ==
    [invMassSolve |-> invMass, invInertiaWorldSolve |-> invInertia]
Free == Body(R(1), IdM)
Fixed == Body(0, ZeroM)
\* an inverse mass that is no power of two: its products round
Light == Body(Q(3, 4), IdM)
\* an inverse mass that is a power of two: its products are exact
Heavy == Body(Q(1, 2), IdM)

Neg3(v) == <<-v[1], -v[2], -v[3]>>
\* the Jacobian of a constraint on the relative velocity along axis n
\* (and the relative angular velocity about r)
Jacobian(n, r) ==
    [A |-> [spatial |-> n, rotational |-> r],
     B |-> [spatial |-> Neg3(n), rotational |-> Neg3(r)]]

Equation(pair, jac, c, b, eps, lo, hi) ==
    [bodyA |-> pair[1], bodyB |-> pair[2], jeA |-> jac.A, jeB |-> jac.B,
     C |-> c, B |-> b, eps |-> eps, minForce |-> lo, maxForce |-> hi,
     multiplier |-> 0]

AxisX == <<R(1), 0, 0>>
AxisZ == <<0, 0, R(1)>>
Skew == <<Q(3, 4), Q(3, 4), 0>>
Jacobians == {Jacobian(AxisX, Zero3), Jacobian(Skew, AxisZ)}
ForceBounds == {<<NegInf, PosInf>>, <<0, PosInf>>, <<R(-5), R(5)>>}

Equations ==
    {Equation(pair, jac, c, b, 0, fb[1], fb[2]) :
        pair \in {<<0, 1>>, <<1, 1>>}, jac \in Jacobians,
        c \in {0, R(1), Q(3, 2), R(2)}, b \in {Q(-5, 2), R(3)},
        fb \in ForceBounds}
    \cup
    {Equation(<<0, 1>>, Jacobian(AxisX, Zero3), R(2), b, Q(1, 2), fb[1], fb[2]) :
        b \in {Q(-5, 2), R(3)}, fb \in ForceBounds}

\* the equations that follow another one in a list
SecondEquations ==
    {Equation(<<0, 1>>, Jacobian(AxisX, Zero3), R(2), b, 0, fb[1], fb[2]) :
        b \in {R(3)}, fb \in {<<NegInf, PosInf>>, <<0, PosInf>>}}

EquationLists ==
    {<<>>} \cup {<<e>> : e \in Equations}
           \cup {<<e, f>> : e \in Equations, f \in SecondEquations}

BodyLists ==
    {<<>>, <<Free>>, <<Free, Free>>, <<Free, Fixed>>, <<Light, Light>>,
     <<Heavy, Heavy>>, <<Fixed, Free, Free>>}

\* every equation's bodies are bodies of the list
WellIndexed(eqs, bs) ==
    \A i \in 1..Len(eqs) : eqs[i].bodyA < Len(bs) /\ eqs[i].bodyB < Len(bs)

Systems ==
    {sys \in [eqs : EquationLists, bodies : BodyLists] :
        /\ WellIndexed(sys.eqs, sys.bodies)
        /\ (sys.eqs = <<>> \/ Len(sys.bodies) >= 2)}

\* a few systems, for behaviours that call Solve several times
SmallEquations ==
    {Equation(<<0, 1>>, Jacobian(AxisX, Zero3), R(1), R(3), 0, NegInf, PosInf),
     Equation(<<0, 1>>, Jacobian(AxisX, Zero3), R(2), Q(-5, 2), 0, 0, PosInf),
     Equation(<<1, 1>>, Jacobian(Skew, AxisZ), R(2), R(3), Q(1, 2), R(-5), R(5))}
SmallSystems ==
    {sys \in [eqs : {<<>>} \cup {<<e>> : e \in SmallEquations}
                           \cup {<<e, f>> : e, f \in SmallEquations},
              bodies : {<<>>, <<Free>>, <<Free, Fixed>>, <<Fixed, Free, Free>>}] :
        WellIndexed(sys.eqs, sys.bodies)}

\* frameDelta.Seconds()
TimeSteps == {Q(1, 2), R(2)}
OneTimeStep == {Q(1, 2)}

\* ------------------------------------------------------------------------
\* State
\* ------------------------------------------------------------------------
VARIABLES
    gs,              \* the GaussSeidel object
    equations,       \* gs.equations, the list the caller filled
    bodies,          \* the bodies the equations refer to, by Index()
    pc,              \* where Solve is: "idle", "loop", "mult"
    iter, j,         \* Solve's loop counters
    deltaLambdaTot,  \* Solve's deltaLambdaTot
    h,               \* Solve's h
    ret,             \* the value the last Solve returned
    calls,           \* Solve calls that have returned
    stopIter,        \* iteration index at which the loop broke, -1 if it has not
    hist,            \* deltaLambdaTot of every finished pass of this call
    applied,         \* every update of this call: equation index, GWlambda, deltaLambda
    writes,          \* SetMultiplier calls of this call, per equation
    passes,          \* equation counts at which the convergence test was evaluated
    exact,           \* no floating-point operation of this call has rounded so far
    vbo,             \* the VBO object
    gl,              \* the OpenGL state the VBO talks to
    ops,             \* VBO operations made
    lastOp           \* the VBO operation that returned last

solverVars == <<gs, equations, bodies, pc, iter, j, deltaLambdaTot, h, ret, calls,
                stopIter, hist, applied, writes, passes, exact>>
vboVars == <<vbo, gl, ops, lastOp>>
vars == <<gs, equations, bodies, pc, iter, j, deltaLambdaTot, h, ret, calls,
          stopIter, hist, applied, writes, passes, exact, vbo, gl, ops, lastOp>>

nEquations == Len(equations)
nBodies == Len(bodies)

InitSolver ==
    /\ gs = NewGaussSeidel
    /\ equations = <<>>
    /\ bodies = <<>>
    /\ pc = "idle"
    /\ iter = 0
    /\ j = 0
    /\ deltaLambdaTot = 0
    /\ h = 0
    /\ ret = 0
    /\ calls = 0
    /\ stopIter = -1
    /\ hist = <<>>
    /\ applied = <<>>
    /\ writes = <<>>
    /\ passes = <<>>
    /\ exact = TRUE

\* ------------------------------------------------------------------------
\* Solver actions
\* ------------------------------------------------------------------------
\* the setter of maxIter, before the solver is first used
SetMaxIter ==
    /\ pc = "idle" /\ calls = 0 /\ equations = <<>> /\ bodies = <<>>
    /\ \E n \in 1..MaxIterBound : gs' = [gs EXCEPT !.maxIter = n]
    /\ UNCHANGED <<equations, bodies, pc, iter, j, deltaLambdaTot, h, ret, calls,
                   stopIter, hist, applied, writes, passes, exact>>

\* Solve(frameDelta, nBodies) up to the iteration loop, on the system the
\* caller built for this step
SolveBegin(pool, steps) ==
    /\ pc = "idle"
    /\ \E sys \in pool, hh \in steps :
        /\ equations' = sys.eqs
        /\ bodies' = sys.bodies
        /\ h' = hh
        /\ gs' = SolveProlog(gs, sys.eqs, Len(sys.bodies))
        /\ writes' = [i \in 1..Len(sys.eqs) |-> 0]
        /\ pc' = IF Len(sys.eqs) > 0 /\ 0 < gs.maxIter THEN "loop" ELSE "mult"
        /\ exact' = ExactProlog(sys.eqs)
    /\ iter' = 0
    /\ j' = 0
    /\ deltaLambdaTot' = 0
    /\ stopIter' = -1
    /\ hist' = <<>>
    /\ applied' = <<>>
    /\ passes' = <<>>
    /\ UNCHANGED <<ret, calls>>

\* one turn of the loop over the equations
SolveEquation ==
    /\ pc = "loop" /\ j < nEquations
    /\ LET u == EquationUpdate(gs, equations, bodies, j)
       IN  /\ gs' = u.g
           /\ deltaLambdaTot' = FAdd(deltaLambdaTot, FAbs(u.deltaLambda))
           /\ applied' = Append(applied,
                  [j |-> j, GWlambda |-> u.GWlambda, deltaLambda |-> u.deltaLambda])
           /\ exact' = (exact /\ ExactUpdate(gs, equations, bodies, j, deltaLambdaTot))
    /\ j' = j + 1
    /\ UNCHANGED <<equations, bodies, pc, iter, h, ret, calls, stopIter, hist,
                   writes, passes>>

\* the end of a pass: the convergence test, then iter++ and the loop test
EndPass ==
    /\ pc = "loop" /\ j >= nEquations
    /\ hist' = Append(hist, deltaLambdaTot)
    /\ passes' = Append(passes, j)
    /\ IF Converged(gs, deltaLambdaTot)
       THEN /\ stopIter' = iter
            /\ pc' = "mult"
            /\ UNCHANGED <<iter, deltaLambdaTot>>
            /\ j' = 0
       ELSE /\ iter' = iter + 1
            /\ pc' = IF iter + 1 < gs.maxIter THEN "loop" ELSE "mult"
            /\ deltaLambdaTot' = 0
            /\ j' = 0
            /\ UNCHANGED stopIter
    /\ UNCHANGED <<gs, equations, bodies, h, ret, calls, applied, writes, exact>>

\* "Set the .multiplier property of each equation"
SetMultiplier ==
    /\ pc = "mult" /\ nEquations > 0 /\ j < nEquations
    /\ equations' = [equations EXCEPT ![j + 1].multiplier = MultiplierOf(gs, j, h)]
    /\ writes' = [writes EXCEPT ![j + 1] = @ + 1]
    /\ j' = j + 1
    /\ UNCHANGED <<gs, bodies, pc, iter, deltaLambdaTot, h, ret, calls, stopIter,
                   hist, applied, passes, exact>>

\* iter += 1 (when there are equations) and return iter
SolveReturn ==
    /\ pc = "mult" /\ (nEquations = 0 \/ j >= nEquations)
    /\ ret' = Returned(nEquations, iter)
    /\ calls' = calls + 1
    /\ pc' = "idle"
    /\ UNCHANGED <<gs, equations, bodies, iter, j, deltaLambdaTot, h, stopIter,
                   hist, applied, writes, passes, exact>>

\* ------------------------------------------------------------------------
\* VBO
\* ------------------------------------------------------------------------
\* unsafe.Sizeof(float32(0))
SizeofFloat32 == 4

AttribNames == {"VertexPosition", "VertexNormal", "VertexTexcoord"}
ItemSizes == {2, 3}
\* the data buffers the caller sets
Buffers == {<<>>, <<1>>, <<2, 2>>}

\* gs.prog.GetAttribLocation(name): the current program has no VertexNormal
GetAttribLocation(name) ==
    IF name = "VertexPosition" THEN 0
    ELSE IF name = "VertexTexcoord" THEN 1
    ELSE -1

\* NewVBO / init
NewVBO ==
    [gs |-> "nil", handle |-> 0, usage |-> "STATIC_DRAW", update |-> TRUE,
     buffer |-> <<>>, attribs |-> <<>>]

\* the OpenGL state: the last generated buffer name, the data store of every
\* live buffer (<<>> until BufferData), the VertexAttribPointer calls of the
\* last initialisation of the VBO
NewGLS == [last |-> 0, store |-> <<>>, live |-> {}, pointers |-> <<>>]

\* ArrayF32.Bytes
Bytes(buffer) == Len(buffer) * SizeofFloat32

RECURSIVE AttribOffsetFrom(_, _, _, _)
AttribOffsetFrom(attribs, name, i, elementCount) ==
    IF i > Len(attribs) THEN elementCount
    ELSE IF attribs[i].Name = name THEN elementCount
    ELSE AttribOffsetFrom(attribs, name, i + 1, elementCount + attribs[i].ItemSize)

AttribOffset(v, name) == AttribOffsetFrom(v.attribs, name, 1, 0)

RECURSIVE StrideFrom(_, _)
StrideFrom(attribs, i) ==
    IF i > Len(attribs) THEN 0 ELSE attribs[i].ItemSize + StrideFrom(attribs, i + 1)

Stride(v) == StrideFrom(v.attribs, 1)
StrideSize(v) == Stride(v) * SizeofFloat32

\* Transfer, "For each attribute": the VertexAttribPointer calls made, in order
RECURSIVE AttribPointers(_, _, _, _, _)
AttribPointers(attribs, i, items, offset, strideSize) ==
    IF i > Len(attribs) THEN <<>>
    ELSE LET attrib == attribs[i]
             loc == GetAttribLocation(attrib.Name)
         IN  IF loc < 0
             THEN AttribPointers(attribs, i + 1, items, offset, strideSize)
             ELSE <<[attr |-> i, loc |-> loc, size |-> attrib.ItemSize,
                     stride |-> strideSize, offset |-> offset]>>
                  \o AttribPointers(attribs, i + 1, items + attrib.ItemSize,
                                    SizeofFloat32 * (items + attrib.ItemSize),
                                    strideSize)

\* Transfer, "First time initialization"
FirstTimeInit(v, g) ==
    IF v.gs = "nil"
    THEN [vbo |-> [v EXCEPT !.handle = g.last + 1, !.gs = "gls"],
          gl |-> [g EXCEPT !.last = g.last + 1,
                           !.store = Append(g.store, <<>>),
                           !.live = g.live \cup {g.last + 1},
                           !.pointers = AttribPointers(v.attribs, 1, 0, 0,
                                                       StrideSize(v))]]
    ELSE [vbo |-> v, gl |-> g]

\* Transfer, "Transfer the VBO data to OpenGL" unless nothing has changed
Upload(v, g) ==
    IF ~v.update
    THEN [vbo |-> v, gl |-> g]
    ELSE [vbo |-> [v EXCEPT !.update = FALSE],
          gl |-> [g EXCEPT !.store[v.handle] = v.buffer]]

InitVBO ==
    /\ vbo = NewVBO
    /\ gl = NewGLS
    /\ ops = 0
    /\ lastOp = "NewVBO"

AddAttrib ==
    /\ ops < MaxOps /\ Len(vbo.attribs) < Cardinality(AttribNames)
    /\ \E name \in AttribNames, itemSize \in ItemSizes :
          vbo' = [vbo EXCEPT !.attribs =
                     Append(@, [Name |-> name, ItemSize |-> itemSize])]
    /\ ops' = ops + 1
    /\ lastOp' = "AddAttrib"
    /\ UNCHANGED gl

Dispose ==
    /\ ops < MaxOps
    /\ gl' = IF vbo.gs # "nil" THEN [gl EXCEPT !.live = @ \ {vbo.handle}] ELSE gl
    /\ vbo' = [vbo EXCEPT !.gs = "nil"]
    /\ ops' = ops + 1
    /\ lastOp' = "Dispose"

SetBuffer ==
    /\ ops < MaxOps
    /\ \E buffer \in Buffers : vbo' = [vbo EXCEPT !.buffer = buffer, !.update = TRUE]
    /\ ops' = ops + 1
    /\ lastOp' = "SetBuffer"
    /\ UNCHANGED gl

Update ==
    /\ ops < MaxOps
    /\ vbo' = [vbo EXCEPT !.update = TRUE]
    /\ ops' = ops + 1
    /\ lastOp' = "Update"
    /\ UNCHANGED gl

Transfer ==
    /\ ops < MaxOps
    /\ IF Bytes(vbo.buffer) = 0
       THEN UNCHANGED <<vbo, gl>>
       ELSE LET i == FirstTimeInit(vbo, gl)
                u == Upload(i.vbo, i.gl)
            IN  vbo' = u.vbo /\ gl' = u.gl
    /\ ops' = ops + 1
    /\ lastOp' = "Transfer"

Init == InitSolver /\ InitVBO

\* a solver configured, then called for the first time
Next ==
    \/ (SetMaxIter /\ UNCHANGED vboVars)
    \/ (calls = 0 /\ SolveBegin(Systems, OneTimeStep) /\ UNCHANGED vboVars)
    \/ (SolveEquation /\ UNCHANGED vboVars)
    \/ (EndPass /\ UNCHANGED vboVars)
    \/ (SetMultiplier /\ UNCHANGED vboVars)
    \/ (SolveReturn /\ UNCHANGED vboVars)

Spec == Init /\ [][Next]_vars

\* the solver called several times, on the small systems
NextCalls ==
    \/ (SetMaxIter /\ UNCHANGED vboVars)
    \/ (calls < MaxCalls /\ SolveBegin(SmallSystems, TimeSteps) /\ UNCHANGED vboVars)
    \/ (SolveEquation /\ UNCHANGED vboVars)
    \/ (EndPass /\ UNCHANGED vboVars)
    \/ (SetMultiplier /\ UNCHANGED vboVars)
    \/ (SolveReturn /\ UNCHANGED vboVars)

SpecCalls == Init /\ [][NextCalls]_vars

NextVBO ==
    \/ (AddAttrib /\ UNCHANGED solverVars)
    \/ (Dispose /\ UNCHANGED solverVars)
    \/ (SetBuffer /\ UNCHANGED solverVars)
    \/ (Update /\ UNCHANGED solverVars)
    \/ (Transfer /\ UNCHANGED solverVars)

SpecVBO == Init /\ [][NextVBO]_vars

\* ------------------------------------------------------------------------
\* Properties
\* ------------------------------------------------------------------------
\* a Solve call has returned and its results stand
Returns == pc = "idle" /\ calls > 0

Lambda(i) == At(gs.solveLambda, i)

\* every coefficient and every impulse of the call so far is a finite number
FiniteRun ==
    /\ \A i \in 0..(nEquations - 1) :
          IsFinite(At(gs.solveInvCs, i)) /\ IsFinite(Lambda(i))
    /\ \A n \in 1..Len(applied) : IsFinite(applied[n].deltaLambda)

\* C1: for a solver with at least one equation, Solve returns the index of the
\* iteration at which the loop stopped plus one, capped at maxIter: maxIter
\* when the convergence test never succeeded, k+1 when it first succeeded at
\* iteration k, and never more than maxIter.  Stated for the runs in which
\* every coefficient and impulse is finite.
C1_ReturnsIterationsCapped ==
    (Returns /\ nEquations > 0 /\ FiniteRun) =>
        /\ ret <= gs.maxIter
        /\ (stopIter = -1 => ret = gs.maxIter)
        /\ (stopIter >= 0 => ret = stopIter + 1)

\* C2: for every equation j with minForce <= 0 <= maxForce the accumulated
\* impulse lambda[j] lies in [minForce, maxForce] after every update and when
\* Solve returns.  Stated for the runs in which every coefficient and impulse
\* is finite.
C2_LambdaWithinForceBounds ==
    (pc # "idle" \/ Returns) =>
        \A i \in 0..(nEquations - 1) :
            (/\ FiniteRun
             /\ equations[i + 1].minForce <= 0
             /\ 0 <= equations[i + 1].maxForce)
            => /\ equations[i + 1].minForce <= Lambda(i)
               /\ Lambda(i) <= equations[i + 1].maxForce

IsFixed(b) == b.invMassSolve = 0 /\ b.invInertiaWorldSolve = ZeroM
FiniteImpulses == \A n \in 1..Len(applied) : IsFinite(applied[n].deltaLambda)

\* C3: a body with invMassSolve = 0 and zero inverse inertia has zero velocity
\* delta and zero angular-velocity delta after every update and when Solve
\* returns, whatever equations refer to it, provided all impulses are finite.
C3_FixedBodyUnmoved ==
    ((pc # "idle" \/ Returns) /\ FiniteImpulses) =>
        \A i \in 0..(nBodies - 1) :
            IsFixed(bodies[i + 1]) =>
                /\ At(gs.VelocityDeltas, i) = Zero3
                /\ At(gs.AngularVelocityDeltas, i) = Zero3

\* a fixed body is both bodies of an equation that applied a finite nonzero
\* impulse, and is body B of another one that did
C3_Witness ==
    /\ Returns /\ FiniteImpulses /\ nEquations = 2
    /\ IsFixed(bodies[equations[1].bodyA + 1])
    /\ equations[1].bodyA = equations[1].bodyB
    /\ ~IsFixed(bodies[equations[2].bodyA + 1])
    /\ IsFixed(bodies[equations[2].bodyB + 1])
    /\ \E n, m \in 1..Len(applied) :
          /\ applied[n].j = 0 /\ applied[n].deltaLambda # 0
          /\ applied[m].j = 1 /\ applied[m].deltaLambda # 0

\* ------------------------------------------------------------------------
\* Solve as a function of its inputs, run on a solver g
\* ------------------------------------------------------------------------
RECURSIVE RunPass(_, _, _, _, _)
RunPass(g, eqs, bs, jj, tot) ==
    IF jj >= Len(eqs) THEN [g |-> g, tot |-> tot]
    ELSE LET u == EquationUpdate(g, eqs, bs, jj)
         IN  RunPass(u.g, eqs, bs, jj + 1, FAdd(tot, FAbs(u.deltaLambda)))

RECURSIVE RunLoop(_, _, _, _)
RunLoop(g, eqs, bs, it) ==
    IF it >= g.maxIter THEN [g |-> g, iter |-> it]
    ELSE LET p == RunPass(g, eqs, bs, 0, 0)
         IN  IF Converged(p.g, p.tot) THEN [g |-> p.g, iter |-> it]
             ELSE RunLoop(p.g, eqs, bs, it + 1)

Solve(g, eqs, bs, hh) ==
    LET g0 == SolveProlog(g, eqs, Len(bs))
        r == IF Len(eqs) > 0 THEN RunLoop(g0, eqs, bs, 0) ELSE [g |-> g0, iter |-> 0]
    IN  [VelocityDeltas |-> View(r.g.VelocityDeltas),
         AngularVelocityDeltas |-> View(r.g.AngularVelocityDeltas),
         multipliers |-> [i \in 1..Len(eqs) |-> MultiplierOf(r.g, i - 1, hh)],
         ret |-> Returned(Len(eqs), r.iter)]

\* what the call that has just returned produced
Outputs ==
    [VelocityDeltas |-> View(gs.VelocityDeltas),
     AngularVelocityDeltas |-> View(gs.AngularVelocityDeltas),
     multipliers |-> [i \in 1..nEquations |-> equations[i].multiplier],
     ret |-> ret]

\* a freshly constructed solver with this solver's configuration
FreshSolver == [NewGaussSeidel EXCEPT !.maxIter = gs.maxIter,
                                      !.tolerance = gs.tolerance]
\* the equations as the caller handed them in
GivenEquations == [i \in 1..nEquations |-> [equations[i] EXCEPT !.multiplier = 0]]

\* C4: the outputs of a Solve call (both Solution arrays, every multiplier, the
\* returned count) are those a freshly constructed solver produces on the same
\* equations, bodies, timestep and configuration, whatever calls came before,
\* and the Solution arrays have length bodyCount.
C4_SolveIndependentOfHistory ==
    Returns =>
        /\ Outputs = Solve(FreshSolver, GivenEquations, bodies, h)
        /\ gs.VelocityDeltas.len = nBodies
        /\ gs.AngularVelocityDeltas.len = nBodies

\* a second call that iterated, on fewer equations and fewer bodies than an
\* earlier call, whose impulses and deltas are still in the backing arrays
C4_Witness ==
    /\ Returns /\ calls >= 2 /\ nEquations = 1 /\ Len(hist) >= 2
    /\ Len(gs.solveLambda.buf) > nEquations
    /\ gs.solveLambda.buf[2] # 0
    /\ Len(gs.VelocityDeltas.buf) > nBodies
    /\ Lambda(0) # 0

\* C5: Solve on an empty equation list returns 0, performs no iteration, writes
\* no multiplier, and leaves both Solution arrays of length bodyCount and all
\* zero, whatever maxIter is and whatever earlier calls left in the solver.
C5_EmptyListSolve ==
    /\ (nEquations = 0 => pc # "loop")
    /\ (Returns /\ nEquations = 0) =>
          /\ ret = 0
          /\ hist = <<>> /\ applied = <<>> /\ writes = <<>>
          /\ View(gs.VelocityDeltas) = [i \in 1..nBodies |-> Zero3]
          /\ View(gs.AngularVelocityDeltas) = [i \in 1..nBodies |-> Zero3]

\* an empty list solved for one body or more after a call that left nonzero
\* deltas and impulses in the solver
C5_Witness ==
    /\ Returns /\ calls >= 2 /\ nEquations = 0 /\ nBodies >= 1
    /\ Len(gs.solveLambda.buf) > 0 /\ gs.solveLambda.buf[1] # 0
    /\ Len(gs.VelocityDeltas.buf) > nBodies
    /\ gs.VelocityDeltas.buf[nBodies + 1] # Zero3

\* the impulses applied to equation i among the first n updates, summed in order
RECURSIVE Accumulated(_, _)
Accumulated(i, n) ==
    IF n = 0 THEN 0
    ELSE IF applied[n].j = i THEN FAdd(Accumulated(i, n - 1), applied[n].deltaLambda)
    ELSE Accumulated(i, n - 1)

\* C6: with at least one equation and h > 0, when Solve returns every equation
\* has had its multiplier set exactly once, to its final accumulated impulse
\* divided by h, and no multiplier is written while the loop runs.
C6_MultiplierWrittenOnce ==
    /\ (Returns /\ nEquations > 0 /\ h > 0) =>
          \A i \in 0..(nEquations - 1) :
              /\ writes[i + 1] = 1
              /\ Lambda(i) = Accumulated(i, Len(applied))
              /\ equations[i + 1].multiplier = FDiv(Accumulated(i, Len(applied)), h)
    /\ pc = "loop" =>
          \A i \in 0..(nEquations - 1) :
              writes[i + 1] = 0 /\ equations[i + 1].multiplier = 0

\* two equations, the loop stopped early after more than one pass, and the
\* multipliers differ from the impulses
C6_Witness ==
    /\ Returns /\ nEquations = 2 /\ stopIter >= 1 /\ FiniteRun
    /\ \A i \in 0..1 : Lambda(i) # 0 /\ equations[i + 1].multiplier # Lambda(i)

\* integer (unrounded) dot product of two vectors of finite floats
DotInt(v, w) == v[1] * w[1] + v[2] * w[2] + v[3] * w[3]
\* the rows of m applied to v, unrounded
ApplyInt(v, m) == <<DotInt(m[1], v), DotInt(m[2], v), DotInt(m[3], v)>>

\* eq.C is exactly the effective mass J W J^T of the equation on its bodies
\* (all quantities in units of 1/Scale^3)
IsEffectiveMass(eq, bs) ==
    LET bA == bs[eq.bodyA + 1]
        bB == bs[eq.bodyB + 1]
    IN  eq.C * Scale * Scale =
              bA.invMassSolve * DotInt(eq.jeA.spatial, eq.jeA.spatial)
            + bB.invMassSolve * DotInt(eq.jeB.spatial, eq.jeB.spatial)
            + DotInt(eq.jeA.rotational,
                     ApplyInt(eq.jeA.rotational, bA.invInertiaWorldSolve))
            + DotInt(eq.jeB.rotational,
                     ApplyInt(eq.jeB.rotational, bB.invInertiaWorldSolve))

\* one equality constraint (unbounded force, eps = 0) on the relative velocity
\* of two distinct free bodies of equal mass
SingleEquality ==
    /\ nEquations = 1
    /\ LET eq == equations[1]
       IN  /\ eq.minForce = NegInf /\ eq.maxForce = PosInf /\ eq.eps = 0
           /\ eq.bodyA # eq.bodyB
           /\ ~IsFixed(bodies[eq.bodyA + 1])
           /\ bodies[eq.bodyA + 1] = bodies[eq.bodyB + 1]
           /\ eq.jeB.spatial = Neg3(eq.jeA.spatial)
           /\ eq.jeB.rotational = Neg3(eq.jeA.rotational)
           /\ IsEffectiveMass(eq, bodies)

\* every pass moved the impulses strictly less than the pass before it
StrictlyDecreasing == \A k \in 1..(Len(hist) - 1) : FLt(hist[k + 1], hist[k])

\* JeA.deltaA + JeB.deltaB of the equation equals its bias b, unrounded
DeltasCancelBias ==
    LET eq == equations[1]
        d == ReadDeltas(gs, eq)
    IN  /\ \A i \in 1..3 : IsFinite(d.vA[i]) /\ IsFinite(d.vB[i])
                            /\ IsFinite(d.wA[i]) /\ IsFinite(d.wB[i])
        /\ DotInt(eq.jeA.spatial, d.vA) + DotInt(eq.jeA.rotational, d.wA)
             + DotInt(eq.jeB.spatial, d.vB) + DotInt(eq.jeB.rotational, d.wB)
           = eq.B * Scale

RECURSIVE Replay(_)
Replay(n) ==
    IF n = 0
    THEN [v |-> [buf |-> [i \in 1..nBodies |-> Zero3], len |-> nBodies],
          w |-> [buf |-> [i \in 1..nBodies |-> Zero3], len |-> nBodies]]
    ELSE LET prev == Replay(n - 1)
             eq == equations[applied[n].j + 1]
         IN  [v |-> AddVelocity(prev.v, eq, bodies, applied[n].deltaLambda),
              w |-> AddAngular(prev.w, eq, bodies, applied[n].deltaLambda)]

\* C8: within each iteration every equation is processed once, in list order;
\* equation j computes GWlambda from the deltas as all earlier updates left
\* them, those of equations 0..j-1 of the same pass included; the convergence
\* test is evaluated only after a full pass.
C8_SequentialPasses ==
    (pc # "idle" \/ Returns) =>
        /\ \A n \in 1..Len(applied) : applied[n].j = (n - 1) % nEquations
        /\ pc = "loop" => Len(applied) = Len(hist) * nEquations + j
        /\ \A k \in 1..Len(passes) : passes[k] = nEquations
        /\ Len(applied) > 0 =>
              LET n == Len(applied)
                  eq == equations[applied[n].j + 1]
                  before == Replay(n - 1)
              IN  applied[n].GWlambda =
                      FAdd(MultiplyVectors(eq.jeA, At(before.v, eq.bodyA),
                                           At(before.w, eq.bodyA)),
                           MultiplyVectors(eq.jeB, At(before.v, eq.bodyB),
                                           At(before.w, eq.bodyB)))

\* the second equation of the first pass read a nonzero GWlambda: the update
\* the first equation made in the same pass
C8_Witness ==
    /\ pc = "loop" /\ iter = 0 /\ j = 2 /\ nEquations = 2
    /\ applied[1].deltaLambda # 0 /\ IsFinite(applied[1].deltaLambda)
    /\ applied[2].GWlambda # 0

\* C9: whenever a Transfer call with a non-empty data buffer returns, the
\* OpenGL buffer named by the VBO's handle holds the VBO's data buffer.
C9_TransferUploadsCurrentData ==
    (lastOp = "Transfer" /\ Bytes(vbo.buffer) # 0) =>
        /\ vbo.handle \in gl.live
        /\ gl.store[vbo.handle] = vbo.buffer

\* C10: in the first-time initialisation of Transfer, the offset passed to
\* VertexAttribPointer for an attribute is 4 * AttribOffset(name): 4 times the
\* summed ItemSize of the attributes before it in the list, those without a
\* location included.  (For a name listed twice AttribOffset is that of its
\* first entry, and only that entry is compared.)
C10_PointerOffsetIsAttribOffset ==
    lastOp = "Transfer" =>
        \A n \in 1..Len(gl.pointers) :
            LET p == gl.pointers[n]
                name == vbo.attribs[p.attr].Name
            IN  (\A k \in 1..(p.attr - 1) : vbo.attribs[k].Name # name)
                => p.offset = SizeofFloat32 * AttribOffset(vbo, name)

====
